---------------------------- MODULE Spec2Model ----------------------------
(***************************************************************************)
(* rocksdb-viewer: the background refresh thread, the mpsc handoff, the    *)
(* in-memory snapshot held by DataManager, and the navigation state of     *)
(* App driven by handle_event and ui.                                      *)
(*                                                                         *)
(* Strings are sequences of one-character strings, so that substring       *)
(* search, splitting and byte-wise comparison are computed, not assumed.   *)
(* Option<T> is a sequence of length 0 (None) or 1 (Some).                 *)
(***************************************************************************)
EXTENDS Integers, Sequences, FiniteSets, TLC

VARIABLES
    store,         \* the RocksDB contents: the set of keys present
    mtime,         \* the modification time of the store directory
    metaOk,        \* whether std::fs::metadata(db_path).modified() succeeds
    chan,          \* the mpsc channel: snapshots sent and not yet received
    loads,         \* number of load_records calls made by the background thread
    loadedAt,      \* history: the store's mtime at the latest load_records call (0: none yet)
    bgPc,          \* background thread: "running" | "exited" | "panicked"
    uiPc,          \* interactive thread: "new" | "try_recv" | "poll" | "quit" | "panicked"
    app,           \* struct App (with its DataManager's records and headers)
    installedSeq,  \* history: load number of the snapshot held in app.records
    deletedKeys,   \* history: keys deleted by the interactive loop and not re-inserted since
    call           \* the last call of a pure function made on its own: inputs and result

vars == <<store, mtime, metaOk, chan, loads, loadedAt, bgPc, uiPc, app, installedSeq, deletedKeys, call>>

---------------------------------------------------------------------------
(* Bounds of the model *)

MaxLoads == 3
MaxQueue == 2
MaxWrites == 1
MaxInput == 1
RowsPerPage == 2
MaxPages == 20
MaxHeight == 4
MaxRefreshes == 1

---------------------------------------------------------------------------
(* Option and strings *)

None == <<>>
Some(x) == <<x>>
IsSome(o) == o # <<>>
Unwrap(o) == o[1]

Min(x, y) == IF x <= y THEN x ELSE y
Max(x, y) == IF x >= y THEN x ELSE y
SatSub(x, y) == IF x >= y THEN x - y ELSE 0

CharCode(c) ==
    CASE c = "\"" -> 34 [] c = "," -> 44
      [] c = "0" -> 48 [] c = "1" -> 49 [] c = "2" -> 50 [] c = "3" -> 51
      [] c = "4" -> 52 [] c = "5" -> 53 [] c = "6" -> 54 [] c = "7" -> 55
      [] c = "8" -> 56 [] c = "9" -> 57 [] c = ":" -> 58 [] c = "K" -> 75
      [] c = "a" -> 97 [] c = "b" -> 98 [] c = "d" -> 100 [] c = "e" -> 101
      [] c = "k" -> 107 [] c = "l" -> 108 [] c = "m" -> 109 [] c = "n" -> 110
      [] c = "r" -> 114 [] c = "s" -> 115 [] c = "u" -> 117
      [] c = "v" -> 118 [] c = "x" -> 120 [] c = "y" -> 121 [] c = "z" -> 122
      [] c = "{" -> 123 [] c = "}" -> 125

Digits == {"0", "1", "2", "3", "4", "5", "6", "7", "8", "9"}

\* str::cmp: byte-wise lexicographic order
StrLess(s, t) ==
    \E i \in 1..(Len(t)) :
        /\ \A j \in 1..(i - 1) : j <= Len(s) /\ s[j] = t[j]
        /\ i - 1 <= Len(s)
        /\ (i > Len(s) \/ CharCode(s[i]) < CharCode(t[i]))

\* str::contains that folds the case of both strings
contains_ignoring_case(s, sub) ==
    LET Lower(c) == IF c = "K" THEN "k" ELSE c
        Fold(x) == [i \in 1..Len(x) |-> Lower(x[i])]
    IN  \E i \in 0..(Len(s) - Len(sub)) : SubSeq(Fold(s), i + 1, i + Len(sub)) = Fold(sub)

\* str::contains
Contains(s, sub) ==
    \E i \in 0..(Len(s) - Len(sub)) : SubSeq(s, i + 1, i + Len(sub)) = sub

\* str::split(':'), collected: always at least one segment
RECURSIVE SplitFrom(_, _, _)
SplitFrom(s, i, cur) ==
    IF i > Len(s) THEN <<cur>>
    ELSE IF s[i] = ":" THEN <<cur>> \o SplitFrom(s, i + 1, <<>>)
    ELSE SplitFrom(s, i + 1, Append(cur, s[i]))

Split(s) == SplitFrom(s, 1, <<>>)

RECURSIVE DigitsValue(_)
DigitsValue(s) ==
    IF s = <<>> THEN 0
    ELSE 10 * DigitsValue(SubSeq(s, 1, Len(s) - 1)) + (CharCode(s[Len(s)]) - 48)

AllDigits(s) == s # <<>> /\ \A i \in 1..Len(s) : s[i] \in Digits

\* s.parse::<i64>().ok(), on unsigned decimal text
ParseI64(s) == IF AllDigits(s) THEN Some(DigitsValue(s)) ELSE None

\* s.parse::<f64>(), on unsigned decimal integers
ParseF64(s) == IF AllDigits(s) THEN Some(DigitsValue(s)) ELSE None

\* slice::sort_by: a stable sort; Less is the comparator's Ordering::Less
StableSort(s, Less(_, _)) ==
    LET n == Len(s)
        rank == [i \in 1..n |->
                    Cardinality({j \in 1..n :
                        \/ Less(s[j], s[i])
                        \/ (~Less(s[i], s[j]) /\ j < i)}) + 1]
    IN  [p \in 1..n |-> s[CHOOSE i \in 1..n : rank[i] = p]]

\* Vec<String>::sort of a set of strings
SortedStrings(S) ==
    LET n == Cardinality(S)
    IN  [p \in 1..n |-> CHOOSE x \in S : Cardinality({y \in S : StrLess(y, x)}) = p - 1]

\* Vec::retain
Retain(s, Keep(_)) == SelectSeq(s, Keep)

---------------------------------------------------------------------------
(* The store's universe: keys and the bytes stored under them *)

KeyA1 == <<"a", ":", "k", ":", "1">>
KeyA2 == <<"a", ":", "k", ":", "2">>
KeyA3 == <<"a", ":", "k", ":", "3">>
KeyB1 == <<"b", ":", "k", ":", "1">>

Keys == {KeyA1, KeyA2, KeyA3, KeyB1}

\* a:k:1 -> {"n":5}   a:k:2 -> {"n":10,"v":"x"}   a:k:3 -> zz   b:k:1 -> 7
StoreValue(key) ==
    CASE key = KeyA1 -> <<"{", "\"", "n", "\"", ":", "5", "}">>
      [] key = KeyA2 -> <<"{", "\"", "n", "\"", ":", "1", "0", ",", "\"", "v", "\"", ":", "\"", "x", "\"", "}">>
      [] key = KeyA3 -> <<"z", "z">>
      [] OTHER -> <<"7">>

JString(s) == [kind |-> "string", text |-> s, map |-> <<>>]
JNumber(s) == [kind |-> "number", text |-> s, map |-> <<>>]
JObject(m) == [kind |-> "object", text |-> <<>>, map |-> m]

\* serde_json::from_slice::<Value>(value), on the universe's byte strings
JsonDecode(value) ==
    CASE value = StoreValue(KeyA1) ->
            Some(JObject([f \in {<<"n">>} |-> JNumber(<<"5">>)]))
      [] value = StoreValue(KeyA2) ->
            Some(JObject([f \in {<<"n">>, <<"v">>} |->
                    IF f = <<"n">> THEN JNumber(<<"1", "0">>) ELSE JString(<<"x">>)]))
      [] value = StoreValue(KeyB1) -> Some(JNumber(<<"7">>))
      [] OTHER -> None

---------------------------------------------------------------------------
(* models.rs / main.rs: Record *)

Summary == <<"s", "u", "m", "m", "a", "r", "y">>
ValueField == <<"v", "a", "l", "u", "e">>
KeyHeader == <<"k", "e", "y">>

Nth(segs, n) == IF n + 1 <= Len(segs) THEN Some(segs[n + 1]) ELSE None

deserialize_record(key, value) ==
    LET parts == Split(key)
        record_type == parts[1]
        seg == IF record_type = Summary THEN Nth(parts, 1) ELSE Nth(parts, 2)
        parsed == IF IsSome(seg) THEN ParseI64(Unwrap(seg)) ELSE None
        decoded == JsonDecode(value)
    IN  [record_type |-> record_type,
         key |-> key,
         timestamp |-> IF IsSome(parsed) THEN Unwrap(parsed) ELSE 0,
         data |-> IF IsSome(decoded) THEN Unwrap(decoded)
                  ELSE JObject([f \in {ValueField} |-> JString(value)]),
         raw_data |-> value]

value_to_string(v) ==
    CASE v.kind = "string" -> v.text
      [] v.kind = "number" -> v.text
      [] v.kind = "bool" -> v.text
      [] v.kind = "null" -> <<>>
      [] OTHER -> v.text

to_table_row(record, all_headers) ==
    [i \in 1..Len(all_headers) |->
        IF i = 1 THEN record.key
        ELSE IF record.data.kind = "object" /\ all_headers[i] \in DOMAIN record.data.map
             THEN value_to_string(record.data.map[all_headers[i]])
             ELSE <<>>]

---------------------------------------------------------------------------
(* data.rs: the loader and DataManager *)

last_load_time == 0

\* has_changed with an unreadable marker taken for a change
has_changed_on_error == metaOk => mtime > last_load_time

\* PaginatedDataLoader::has_changed: false when the metadata cannot be read
has_changed == metaOk /\ mtime > last_load_time

\* load_records with each type sorted by timestamp ascending
load_records_oldest_first(db, openOk) ==
    IF ~openOk THEN <<>>
    ELSE LET keys == SortedStrings(db)
             all == [i \in 1..Len(keys) |-> deserialize_record(keys[i], StoreValue(keys[i]))]
             types == {all[i].record_type : i \in 1..Len(all)}
             OfType(t) == LET IsT(r) == r.record_type = t IN Retain(all, IsT)
             Older(x, y) == x.timestamp < y.timestamp
         IN  [t \in types |-> StableSort(OfType(t), Older)]

\* load_records: iterate in key order, group by type, newest first
load_records(db, openOk) ==
    IF ~openOk THEN <<>>
    ELSE LET keys == SortedStrings(db)
             all == [i \in 1..Len(keys) |-> deserialize_record(keys[i], StoreValue(keys[i]))]
             types == {all[i].record_type : i \in 1..Len(all)}
             OfType(t) == LET IsT(r) == r.record_type = t IN Retain(all, IsT)
             Newer(x, y) == x.timestamp > y.timestamp
         IN  [t \in types |-> StableSort(OfType(t), Newer)]

\* collect_headers with the field names in descending order
collect_headers_descending(records) ==
    [t \in DOMAIN records |->
        LET all_keys == UNION {IF records[t][i].data.kind = "object"
                               THEN DOMAIN records[t][i].data.map ELSE {} :
                               i \in 1..Len(records[t])}
            keys == SortedStrings(all_keys)
        IN  <<KeyHeader>> \o [i \in 1..Len(keys) |-> keys[Len(keys) + 1 - i]]]

collect_headers(records) ==
    [t \in DOMAIN records |->
        LET all_keys == UNION {IF records[t][i].data.kind = "object"
                               THEN DOMAIN records[t][i].data.map ELSE {} :
                               i \in 1..Len(records[t])}
        IN  <<KeyHeader>> \o SortedStrings(all_keys)]

\* the orders in which a HashSet of field names may hand out its elements
Fields == {<<"n">>, <<"v">>, ValueField}
IterationOrders == {o \in [1..Cardinality(Fields) -> Fields] : \A i, j \in DOMAIN o : o[i] = o[j] => i = j}

\* collect_headers with the keys left in the order the HashSet handed them out
collect_headers_unsorted(records, order) ==
    [t \in DOMAIN records |->
        LET all_keys == UNION {IF records[t][i].data.kind = "object"
                               THEN DOMAIN records[t][i].data.map ELSE {} :
                               i \in 1..Len(records[t])}
            Inserted(k) == k \in all_keys
            keys == SelectSeq(order, Inserted)
        IN  <<KeyHeader>> \o keys]

\* collect_headers, with all_keys.into_iter() handing out the keys in the given order
collect_headers_iterating(records, order) ==
    [t \in DOMAIN records |->
        LET all_keys == UNION {IF records[t][i].data.kind = "object"
                               THEN DOMAIN records[t][i].data.map ELSE {} :
                               i \in 1..Len(records[t])}
            Inserted(k) == k \in all_keys
            keys == SelectSeq(order, Inserted)
        IN  <<KeyHeader>> \o StableSort(keys, StrLess)]

\* one load: the records of the store and the headers collected from them
load(db, openOk, order) ==
    LET records == load_records(db, openOk)
    IN  [records |-> records, headers |-> collect_headers_iterating(records, order)]

\* delete_record dropping the first record of the type, whatever the key
delete_record_first(records, table, key) ==
    IF table \in DOMAIN records /\ records[table] # <<>>
    THEN [records EXCEPT ![table] = Tail(records[table])]
    ELSE records

\* DataManager::delete_record
delete_record(records, table, key) ==
    IF table \in DOMAIN records
    THEN LET Keep(r) == r.key # key
         IN  [records EXCEPT ![table] = Retain(records[table], Keep)]
    ELSE records

\* mpsc::Sender::send on the unbounded channel
Send(q, msg) == Append(q, msg)

\* DataManager::try_recv: the result flag and the fields it writes
try_recv(a, q) ==
    IF q # <<>>
    THEN [ok |-> TRUE,
          app |-> [a EXCEPT !.records = Head(q).records,
                            !.headers = collect_headers(Head(q).records)],
          chan |-> Tail(q)]
    ELSE [ok |-> FALSE, app |-> a, chan |-> q]

---------------------------------------------------------------------------
(* app.rs: the view pipeline.  A call that unwraps a missing map entry     *)
(* panics; the result then carries panic = TRUE and no rows.               *)

SortedTypes(a) == SortedStrings(DOMAIN a.records)

Cell(record, headers, col) ==
    IF col + 1 <= Len(headers) THEN to_table_row(record, headers)[col + 1] ELSE <<>>

\* the comparator without its numeric arm
SortLess_strings_only(a, headers, x, y) ==
    IF a.sort_ascending
    THEN StrLess(Cell(x, headers, Unwrap(a.sort_column)), Cell(y, headers, Unwrap(a.sort_column)))
    ELSE StrLess(Cell(y, headers, Unwrap(a.sort_column)), Cell(x, headers, Unwrap(a.sort_column)))

\* the comparator of get_filtered_records, as "x sorts strictly before y"
SortLess(a, headers, x, y) ==
    LET col == Unwrap(a.sort_column)
        a_val == Cell(x, headers, col)
        b_val == Cell(y, headers, col)
        a_num == ParseF64(a_val)
        b_num == ParseF64(b_val)
    IN  IF IsSome(a_num) /\ IsSome(b_num)
        THEN IF a.sort_ascending THEN Unwrap(a_num) < Unwrap(b_num)
                                 ELSE Unwrap(b_num) < Unwrap(a_num)
        ELSE IF a.sort_ascending THEN StrLess(a_val, b_val)
                                 ELSE StrLess(b_val, a_val)

get_filtered_records(a, record_type) ==
    IF record_type \notin DOMAIN a.records
    THEN [panic |-> TRUE, rows |-> <<>>]
    ELSE LET Matches(r) == Contains(r.key, a.input)
             kept == IF a.input # <<>> THEN Retain(a.records[record_type], Matches)
                     ELSE a.records[record_type]
             Before(x, y) == SortLess(a, a.headers[record_type], x, y)
         IN  [panic |-> FALSE,
              rows |-> IF IsSome(a.sort_column) THEN StableSort(kept, Before) ELSE kept]

CeilDiv(n, per) == (n + per - 1) \div per

\* get_total_pages with the division rounded down
get_total_pages_floor(a, record_type, height) ==
    LET f == get_filtered_records(a, record_type)
    IN  [panic |-> f.panic,
         pages |-> IF f.rows = <<>> THEN 1 ELSE Len(f.rows) \div height]

get_total_pages(a, record_type, height) ==
    LET f == get_filtered_records(a, record_type)
    IN  [panic |-> f.panic,
         pages |-> IF f.rows = <<>> THEN 1 ELSE CeilDiv(Len(f.rows), height)]

\* visible_page_indices without the windows: the ends and the current page only
visible_page_indices_ends_only(current_page, total_pages) ==
    IF total_pages = 0 THEN {}
    ELSE {0, SatSub(total_pages, 1)} \cup {Min(current_page, SatSub(total_pages, 1))}

\* the BTreeSet of visible_page_indices; the Vec is this set in ascending order
visible_page_indices(current_page, total_pages) ==
    IF total_pages = 0 THEN {}
    ELSE LET last == SatSub(total_pages, 1)
         IN  {0, last}
             \cup (SatSub(current_page, 3))..(Min(current_page + 3, last))
             \cup (IF current_page < 5 THEN 0..(Min(5, last)) ELSE {})
             \cup (IF last > 5 /\ current_page > SatSub(last, 5)
                   THEN (SatSub(last, 5))..last ELSE {})

\* the type list as ui draws it: the sorted type names that contain the filter
\* text, all of them when it is empty
displayed_types(a) ==
    LET Shown(t) == a.input = <<>> \/ Contains(t, a.input)
    IN  SelectSeq(SortedTypes(a), Shown)

\* the line of the displayed type list drawn highlighted, if any
highlighted_type(a) ==
    IF a.focus = "TableSelect" /\ a.table_select_index < Len(displayed_types(a))
    THEN Some(displayed_types(a)[a.table_select_index + 1])
    ELSE None

\* the length of the Vec returned by calculate_column_widths
ColumnCount(a, record_type) ==
    IF record_type \in DOMAIN a.headers /\ record_type \in DOMAIN a.records
    THEN Len(a.headers[record_type]) ELSE 1

---------------------------------------------------------------------------
(* ui.rs: the only fields a draw writes *)

ui(a) ==
    IF IsSome(a.show_raw_data) THEN a
    ELSE IF a.focus = "TableSelect" \/ (a.focus = "Input" /\ a.selected_table = None) THEN a
    ELSE IF a.selected_table = None THEN a
    ELSE LET record_type == Unwrap(a.selected_table)
             f == get_filtered_records(a, record_type)
             total_pages == get_total_pages(a, record_type, RowsPerPage).pages
         IN  IF f.panic THEN [a EXCEPT !.panicked = TRUE]
             ELSE IF f.rows = <<>> THEN a
             ELSE IF total_pages > 0 /\ a.current_page >= total_pages
                  THEN [a EXCEPT !.current_page = SatSub(total_pages, 1)]
                  ELSE a

---------------------------------------------------------------------------
(* events.rs.  An event is [kind, code, ch, n, gap]: a key (code, and ch   *)
(* for Char) or a left button press (code names the region hit, n the page *)
(* button, column or line hit, gap the whole milliseconds passed since     *)
(* last_click).  outcome is what the store answers to a delete.            *)

rows_per_page == Max(RowsPerPage, 1)

\* two presses on a row closer than this many milliseconds are a double click
DoubleClickMs == 500

Modal(kind, key) == Some([kind |-> kind, key |-> key])

handle_input_key(a, ev) ==
    CASE ev.code = "Tab" ->
            IF a.selected_table = None
            THEN IF DOMAIN a.records # {}
                 THEN [a EXCEPT !.focus = "TableSelect", !.table_select_index = 0]
                 ELSE a
            ELSE [a EXCEPT !.focus = "Table"]
      [] ev.code = "Backspace" ->
            [a EXCEPT !.input = SubSeq(a.input, 1, Len(a.input) - 1)]
      [] ev.code = "Char" -> [a EXCEPT !.input = Append(a.input, ev.ch)]
      [] OTHER -> a

\* handle_table_select_key with Enter keeping the sort state and the page
handle_table_select_key_keeps_view(a, ev) ==
    CASE ev.code = "Tab" ->
            [a EXCEPT !.focus = "Input", !.selected_table = None, !.selected_row = None]
      [] ev.code = "Enter" ->
            IF a.table_select_index < Len(SortedTypes(a))
            THEN [a EXCEPT !.selected_table = Some(SortedTypes(a)[a.table_select_index + 1]),
                           !.selected_row = Some(0),
                           !.focus = "Table"]
            ELSE a
      [] ev.code = "Up" ->
            IF a.table_select_index > 0
            THEN [a EXCEPT !.table_select_index = a.table_select_index - 1]
            ELSE a
      [] ev.code = "Down" ->
            IF a.table_select_index < SatSub(Len(SortedTypes(a)), 1)
            THEN [a EXCEPT !.table_select_index = a.table_select_index + 1]
            ELSE a
      [] OTHER -> a

handle_table_select_key(a, ev) ==
    CASE ev.code = "Tab" ->
            [a EXCEPT !.focus = "Input", !.selected_table = None, !.selected_row = None]
      [] ev.code = "Enter" ->
            IF a.table_select_index < Len(SortedTypes(a))
            THEN [a EXCEPT !.selected_table = Some(SortedTypes(a)[a.table_select_index + 1]),
                           !.selected_row = Some(0),
                           !.focus = "Table",
                           !.sort_column = None,
                           !.sort_ascending = TRUE,
                           !.current_page = 0]
            ELSE a
      [] ev.code = "Up" ->
            IF a.table_select_index > 0
            THEN [a EXCEPT !.table_select_index = a.table_select_index - 1]
            ELSE a
      [] ev.code = "Down" ->
            IF a.table_select_index < SatSub(Len(SortedTypes(a)), 1)
            THEN [a EXCEPT !.table_select_index = a.table_select_index + 1]
            ELSE a
      [] OTHER -> a

handle_pages_key(a, ev) ==
    CASE ev.code = "Tab" -> [a EXCEPT !.focus = "Input", !.page_focus = FALSE]
      [] ev.code = "Esc" -> [a EXCEPT !.focus = "Table", !.page_focus = FALSE]
      [] ev.code = "Left" ->
            IF a.current_page > 0 THEN [a EXCEPT !.current_page = a.current_page - 1] ELSE a
      [] ev.code = "Right" ->
            IF IsSome(a.selected_table)
            THEN LET t == get_total_pages(a, Unwrap(a.selected_table), rows_per_page)
                     start_idx == (a.current_page + 1) * rows_per_page
                 IN  IF t.panic THEN [a EXCEPT !.panicked = TRUE]
                     ELSE IF a.current_page + 1 < t.pages
                     THEN [a EXCEPT !.current_page = a.current_page + 1,
                                    !.selected_row =
                                        IF IsSome(a.selected_row) /\ Unwrap(a.selected_row) >= start_idx
                                        THEN a.selected_row ELSE Some(start_idx)]
                     ELSE a
            ELSE a
      [] OTHER -> a

handle_navigation_up(a) ==
    IF IsSome(a.selected_table)
    THEN LET f == get_filtered_records(a, Unwrap(a.selected_table))
         IN  IF f.panic THEN [a EXCEPT !.panicked = TRUE]
             ELSE IF f.rows = <<>> THEN a
             ELSE IF a.selected_row = None THEN [a EXCEPT !.selected_row = Some(0)]
             ELSE IF Unwrap(a.selected_row) > 0
             THEN LET new_row == Unwrap(a.selected_row) - 1
                  IN  [a EXCEPT !.selected_row = Some(new_row),
                                !.current_page =
                                    IF new_row < a.current_page * rows_per_page
                                    THEN SatSub(a.current_page, 1) ELSE a.current_page]
             ELSE a
    ELSE IF DOMAIN a.records # {}
         THEN [a EXCEPT !.selected_table = Some(SortedTypes(a)[1]), !.selected_row = Some(0)]
         ELSE a

\* handle_navigation_down with the page left alone when the row crosses its end
handle_navigation_down_keeps_page(a) ==
    IF IsSome(a.selected_table)
    THEN LET f == get_filtered_records(a, Unwrap(a.selected_table))
             max_row == SatSub(Len(f.rows), 1)
         IN  IF f.panic THEN [a EXCEPT !.panicked = TRUE]
             ELSE IF f.rows = <<>> THEN a
             ELSE IF a.selected_row = None THEN [a EXCEPT !.selected_row = Some(0)]
             ELSE IF Unwrap(a.selected_row) < max_row
             THEN [a EXCEPT !.selected_row = Some(Unwrap(a.selected_row) + 1)]
             ELSE a
    ELSE IF DOMAIN a.records # {}
         THEN [a EXCEPT !.selected_table = Some(SortedTypes(a)[1]), !.selected_row = Some(0)]
         ELSE a

handle_navigation_down(a) ==
    IF IsSome(a.selected_table)
    THEN LET f == get_filtered_records(a, Unwrap(a.selected_table))
             max_row == SatSub(Len(f.rows), 1)
         IN  IF f.panic THEN [a EXCEPT !.panicked = TRUE]
             ELSE IF f.rows = <<>> THEN a
             ELSE IF a.selected_row = None THEN [a EXCEPT !.selected_row = Some(0)]
             ELSE IF Unwrap(a.selected_row) < max_row
             THEN LET new_row == Unwrap(a.selected_row) + 1
                  IN  [a EXCEPT !.selected_row = Some(new_row),
                                !.current_page =
                                    IF new_row >= a.current_page * rows_per_page + rows_per_page
                                    THEN a.current_page + 1 ELSE a.current_page]
             ELSE a
    ELSE IF DOMAIN a.records # {}
         THEN [a EXCEPT !.selected_table = Some(SortedTypes(a)[1]), !.selected_row = Some(0)]
         ELSE a

\* KeyCode::Char('d'): the key handed to db.delete, when the handler gets that far
delete_target(a) ==
    IF IsSome(a.selected_table) /\ IsSome(a.selected_row)
    THEN LET f == get_filtered_records(a, Unwrap(a.selected_table))
         IN  IF ~f.panic /\ Unwrap(a.selected_row) < Len(f.rows)
             THEN Some(f.rows[Unwrap(a.selected_row) + 1].key)
             ELSE None
    ELSE None

\* delete_succeeded without the branch that clears the selection
delete_succeeded_keeps_selection(a, table, row, key) ==
    LET recs == delete_record(a.records, table, key)
    IN  [a EXCEPT !.records = recs,
                  !.show_raw_data = Modal("deleted", key),
                  !.selected_row = Some(Min(row, SatSub(Len(recs[table]), 1)))]

\* the Ok(_) arm of db.delete
delete_succeeded(a, table, row, key) ==
    LET recs == delete_record(a.records, table, key)
        b == [a EXCEPT !.records = recs, !.show_raw_data = Modal("deleted", key)]
    IN  IF table \notin DOMAIN recs \/ recs[table] = <<>>
        THEN [b EXCEPT !.selected_table = None, !.selected_row = None]
        ELSE [b EXCEPT !.selected_row = Some(Min(row, SatSub(Len(recs[table]), 1)))]

\* delete_failed that drops the record from memory all the same
delete_failed_drops_record(a, outcome, key) ==
    [a EXCEPT !.records = delete_record(a.records, Unwrap(a.selected_table), key),
              !.show_raw_data = Modal("delete_error", key)]

\* the Err arms of DB::open and db.delete
delete_failed(a, outcome, key) ==
    IF outcome = "open_err" THEN [a EXCEPT !.show_raw_data = Modal("open_error", <<>>)]
    ELSE [a EXCEPT !.show_raw_data = Modal("delete_error", key)]

handle_delete(a, outcome) ==
    IF IsSome(a.selected_table) /\ IsSome(a.selected_row)
    THEN LET table == Unwrap(a.selected_table)
             row == Unwrap(a.selected_row)
             f == get_filtered_records(a, table)
         IN  IF f.panic THEN [a EXCEPT !.panicked = TRUE]
             ELSE IF row < Len(f.rows)
             THEN IF outcome = "ok"
                  THEN delete_succeeded(a, table, row, f.rows[row + 1].key)
                  ELSE delete_failed(a, outcome, f.rows[row + 1].key)
             ELSE a
    ELSE a

\* handle_back_tab with the sort state carried over to the previous type
handle_back_tab_keeps_sort(a) ==
    IF IsSome(a.selected_table)
    THEN LET types == SortedTypes(a)
             current_table == Unwrap(a.selected_table)
         IN  IF \E i \in 1..Len(types) : types[i] = current_table
             THEN LET current_index == (CHOOSE i \in 1..Len(types) : types[i] = current_table) - 1
                  IN  IF current_index > 0
                      THEN [a EXCEPT !.selected_table = Some(types[current_index]),
                                     !.selected_row = Some(0)]
                      ELSE [a EXCEPT !.focus = "Input"]
             ELSE a
    ELSE [a EXCEPT !.focus = "Input"]

\* the BackTab arm of handle_table_key
handle_back_tab(a) ==
    IF IsSome(a.selected_table)
    THEN LET types == SortedTypes(a)
             current_table == Unwrap(a.selected_table)
         IN  IF \E i \in 1..Len(types) : types[i] = current_table
             THEN LET current_index == (CHOOSE i \in 1..Len(types) : types[i] = current_table) - 1
                  IN  IF current_index > 0
                      THEN [a EXCEPT !.selected_table = Some(types[current_index]),
                                     !.selected_row = Some(0),
                                     !.sort_column = None,
                                     !.sort_ascending = TRUE]
                      ELSE [a EXCEPT !.focus = "Input"]
             ELSE a
    ELSE [a EXCEPT !.focus = "Input"]

handle_table_key(a, ev, outcome) ==
    CASE ev.code = "Tab" -> [a EXCEPT !.focus = "Pages", !.page_focus = TRUE]
      [] ev.code = "BackTab" -> handle_back_tab(a)
      [] ev.code = "Char" /\ ev.ch = "r" ->
            IF IsSome(a.selected_table) /\ IsSome(a.selected_row)
            THEN LET f == get_filtered_records(a, Unwrap(a.selected_table))
                     row == Unwrap(a.selected_row)
                 IN  IF f.panic THEN [a EXCEPT !.panicked = TRUE]
                     ELSE IF row < Len(f.rows)
                     THEN [a EXCEPT !.show_raw_data = Modal("raw", f.rows[row + 1].key)]
                     ELSE a
            ELSE a
      [] ev.code = "PageDown" ->
            IF IsSome(a.selected_table)
            THEN LET t == get_total_pages(a, Unwrap(a.selected_table), rows_per_page)
                 IN  IF t.panic THEN [a EXCEPT !.panicked = TRUE]
                     ELSE IF a.current_page + 1 < t.pages
                     THEN [a EXCEPT !.current_page = a.current_page + 1,
                                    !.selected_row = Some((a.current_page + 1) * rows_per_page)]
                     ELSE a
            ELSE a
      [] ev.code = "PageUp" ->
            IF a.current_page > 0
            THEN LET start_idx == (a.current_page - 1) * rows_per_page
                     sel == IF IsSome(a.selected_row) THEN Unwrap(a.selected_row) ELSE start_idx
                 IN  [a EXCEPT !.current_page = a.current_page - 1,
                               !.selected_row = Some(Max(sel, start_idx))]
            ELSE a
      [] ev.code = "Char" /\ ev.ch = "d" -> handle_delete(a, outcome)
      [] ev.code = "Up" -> handle_navigation_up(a)
      [] ev.code = "Down" -> handle_navigation_down(a)
      [] OTHER -> a

\* handle_key_event with Esc on the page line left to handle_pages_key
handle_key_event_pages_own_esc(a, ev, outcome) ==
    IF ev.code = "CtrlC" THEN [a EXCEPT !.should_quit = TRUE]
    ELSE IF ev.code = "Esc" /\ a.focus \in {"Table", "Input"}
    THEN [a EXCEPT !.focus = "TableSelect", !.selected_table = None, !.selected_row = None]
    ELSE CASE a.focus = "Input" -> handle_input_key(a, ev)
           [] a.focus = "TableSelect" -> handle_table_select_key(a, ev)
           [] a.focus = "Table" -> handle_table_key(a, ev, outcome)
           [] a.focus = "Pages" -> handle_pages_key(a, ev)

handle_key_event(a, ev, outcome) ==
    IF ev.code = "CtrlC" THEN [a EXCEPT !.should_quit = TRUE]
    ELSE IF ev.code = "Esc" /\ a.focus \in {"Table", "Input", "Pages"}
    THEN [a EXCEPT !.focus = "TableSelect", !.selected_table = None, !.selected_row = None]
    ELSE CASE a.focus = "Input" -> handle_input_key(a, ev)
           [] a.focus = "TableSelect" -> handle_table_select_key(a, ev)
           [] a.focus = "Table" -> handle_table_key(a, ev, outcome)
           [] a.focus = "Pages" -> handle_pages_key(a, ev)

\* a press on the page line (chunks[3]); ev.n is the page button hit
click_page(a, ev) ==
    IF IsSome(a.selected_table) /\ Unwrap(a.selected_table) \in DOMAIN a.records
    THEN LET records == a.records[Unwrap(a.selected_table)]
             total_pages == CeilDiv(Len(records), rows_per_page)
         IN  IF ev.n \in visible_page_indices(a.current_page, total_pages)
             THEN [a EXCEPT !.current_page = ev.n,
                            !.focus = "Pages",
                            !.page_focus = TRUE,
                            !.selected_row =
                                IF records # <<>>
                                THEN Some(Min(ev.n * rows_per_page, SatSub(Len(records), 1)))
                                ELSE a.selected_row]
             ELSE a
    ELSE a

\* a press on a line of the type list (no table selected); line is relative_row
click_type(a, line) ==
    IF line < Len(SortedTypes(a))
    THEN [a EXCEPT !.table_select_index = line,
                   !.selected_table = Some(SortedTypes(a)[line + 1]),
                   !.selected_row = Some(0),
                   !.focus = "Table",
                   !.sort_column = None,
                   !.sort_ascending = TRUE]
    ELSE a

\* click_header with every press sorting ascending
click_header_always_ascending(a, ev) ==
    LET b == [a EXCEPT !.focus = "Table"]
    IN  IF ev.n < ColumnCount(a, Unwrap(a.selected_table))
        THEN [b EXCEPT !.sort_column = Some(ev.n),
                       !.sort_ascending = TRUE,
                       !.selected_row = Some(0),
                       !.current_page = 0]
        ELSE b

\* a press on the header line of the table; ev.n is the column hit
click_header(a, ev) ==
    LET b == [a EXCEPT !.focus = "Table"]
    IN  IF ev.n < ColumnCount(a, Unwrap(a.selected_table))
        THEN [b EXCEPT !.sort_column = Some(ev.n),
                       !.sort_ascending = IF a.sort_column = Some(ev.n)
                                          THEN ~a.sort_ascending ELSE TRUE,
                       !.selected_row = Some(0),
                       !.current_page = 0]
        ELSE b

\* click_row with a gap of exactly DoubleClickMs counted as a double click
click_row_at_most(a, ev) ==
    LET b == [a EXCEPT !.focus = "Table"]
        table == Unwrap(a.selected_table)
        row_index == a.current_page * rows_per_page + ev.n
        f == get_filtered_records(b, table)
    IN  IF ev.n >= rows_per_page THEN b
        ELSE IF f.panic THEN [b EXCEPT !.panicked = TRUE]
        ELSE IF row_index < Len(f.rows)
        THEN IF /\ IsSome(a.last_click)
                /\ ev.gap <= DoubleClickMs
                /\ Unwrap(a.last_click).table = table
                /\ Unwrap(a.last_click).row = row_index
             THEN [b EXCEPT !.show_raw_data = Modal("raw", f.rows[row_index + 1].key),
                            !.last_click = None]
             ELSE [b EXCEPT !.last_click = Some([table |-> table, row |-> row_index]),
                            !.selected_row = Some(row_index)]
        ELSE b

\* a press on data line ev.n of the table: select, or inspect on a double click
click_row(a, ev) ==
    LET b == [a EXCEPT !.focus = "Table"]
        table == Unwrap(a.selected_table)
        row_index == a.current_page * rows_per_page + ev.n
        f == get_filtered_records(b, table)
    IN  IF ev.n >= rows_per_page THEN b
        ELSE IF f.panic THEN [b EXCEPT !.panicked = TRUE]
        ELSE IF row_index < Len(f.rows)
        THEN IF /\ IsSome(a.last_click)
                /\ ev.gap < DoubleClickMs
                /\ Unwrap(a.last_click).table = table
                /\ Unwrap(a.last_click).row = row_index
             THEN [b EXCEPT !.show_raw_data = Modal("raw", f.rows[row_index + 1].key),
                            !.last_click = None]
             ELSE [b EXCEPT !.last_click = Some([table |-> table, row |-> row_index]),
                            !.selected_row = Some(row_index)]
        ELSE b

handle_mouse_event(a, ev) ==
    CASE ev.code = "page" -> click_page(a, ev)
      [] ev.code = "input" -> [a EXCEPT !.focus = "Input"]
      [] ev.code = "header" ->
            IF IsSome(a.selected_table) THEN click_header(a, ev) ELSE click_type(a, 0)
      [] ev.code = "row" ->
            IF IsSome(a.selected_table) THEN click_row(a, ev) ELSE click_type(a, ev.n + 1)
      [] OTHER -> a

\* Ctrl-C while the modal is open calls std::process::exit
ExitsProcess(a, ev) == IsSome(a.show_raw_data) /\ ev.kind = "key" /\ ev.code = "CtrlC"

\* handle_event with the modal swallowing the keys only
handle_event_keys_only(a, ev, outcome) ==
    IF IsSome(a.show_raw_data) /\ ev.kind = "key"
    THEN IF ev.code = "Esc" THEN [a EXCEPT !.show_raw_data = None] ELSE a
    ELSE IF ev.kind = "key" THEN handle_key_event(a, ev, outcome)
    ELSE handle_mouse_event(a, ev)

\* while the modal is open Esc closes it and every other event is dropped
handle_event(a, ev, outcome) ==
    IF IsSome(a.show_raw_data)
    THEN IF ev.kind = "key" /\ ev.code = "Esc" THEN [a EXCEPT !.show_raw_data = None] ELSE a
    ELSE IF ev.kind = "key" THEN handle_key_event(a, ev, outcome)
    ELSE handle_mouse_event(a, ev)

---------------------------------------------------------------------------
(* The inputs *)

Key(code) == [kind |-> "key", code |-> code, ch |-> "", n |-> 0, gap |-> 0]
Char(c) == [kind |-> "key", code |-> "Char", ch |-> c, n |-> 0, gap |-> 0]
Mouse(code, n, gap) == [kind |-> "mouse", code |-> code, ch |-> "", n |-> n, gap |-> gap]

KeyCodes == {"CtrlC", "Esc", "Tab", "BackTab", "Enter", "Backspace",
             "Up", "Down", "Left", "Right", "PageUp", "PageDown"}

\* 'd' and 'r' are the delete and inspect keys; '1', 'z' and 'K' are typed into
\* the filter: '1' is in one key of type a, 'z' in none, 'K' in none but for its
\* case; 'b', typed over the type list, is the name of a type
Chars == {"1", "z", "K", "d", "r"}
FilterChars == {"1", "z", "K", "b"}

KeyEvents == {Key(c) : c \in KeyCodes} \cup {Char(c) : c \in Chars}

\* the keys that select a type, delete its rows, close the modal and quit
SyncKeys == {Key("Enter"), Key("Down"), Key("Esc"), Key("CtrlC"), Char("d")}

NavMouse ==
    {Mouse("input", 0, 0)}
    \cup {Mouse("page", n, 0) : n \in 0..1}
    \cup {Mouse("header", n, 0) : n \in 0..1}

\* milliseconds between a press on a row and the press recorded in last_click
ClickGaps == {400, 500, 600}

\* presses on the data lines of the table (or, with no type selected, of the type list)
RowClicks == {Mouse("row", n, gap) : n \in 0..rows_per_page, gap \in ClickGaps}

\* the keys that select a type, sort and page its rows, inspect one and close the modal
ClickKeys == {Key("Enter"), Key("Esc"), Key("Up"), Key("Down"), Key("PageDown"),
              Key("Left"), Key("Right"), Char("r")}

\* the keys that move over the type list, confirm, page and cancel, Tab and
\* 'b' to type a filter that names a type, and the presses that sort
TypeListKeys ==
    {Key("Enter"), Key("Down"), Key("Up"), Key("Esc"), Key("PageDown"), Key("Tab"), Char("b")}
TypeListMouse == {Mouse("header", n, 0) : n \in 0..1}

Outcomes == {"ok", "open_err", "delete_err"}

---------------------------------------------------------------------------
(* The threads *)

NoCall == [op |-> "none"]

NewApp ==
    [records |-> <<>>, headers |-> <<>>, input |-> <<>>, focus |-> "TableSelect",
     selected_table |-> None, selected_row |-> None, show_raw_data |-> None,
     should_quit |-> FALSE, last_click |-> None, table_select_index |-> 0,
     sort_column |-> None, sort_ascending |-> TRUE, current_page |-> 0,
     page_focus |-> FALSE, panicked |-> FALSE]

Init ==
    /\ store = Keys
    /\ mtime = 1
    /\ metaOk \in BOOLEAN
    /\ chan = <<>>
    /\ loads = 0
    /\ loadedAt = 0
    /\ bgPc = "running"
    /\ uiPc = "new"
    /\ app = NewApp
    /\ installedSeq = 0
    /\ deletedKeys = {}
    /\ call = NoCall

ProcessAlive == uiPc \notin {"exited", "panicked"}

\* what the store answers to a load: it opens and iterates, DB::open_for_read_only
\* fails, or it opens and an item of the iterator is an Err
LoadOk == [open |-> TRUE, iterate |-> TRUE]
LoadOutcomes == {LoadOk, [open |-> FALSE, iterate |-> TRUE], [open |-> TRUE, iterate |-> FALSE]}

\* BgTickOf over a channel whose send waits until the pending snapshot is taken
BgTickOf_rendezvous(maxLoads, maxQueue, outcomes) ==
    /\ ProcessAlive
    /\ bgPc = "running"
    /\ has_changed
    /\ (uiPc # "quit") => (chan = <<>>)
    /\ (uiPc # "quit") => (loads < maxLoads /\ Len(chan) < maxQueue)
    /\ \E outcome \in outcomes :
          LET records == load_records(store, outcome.open)
          IN  /\ loads' = loads + 1
              /\ loadedAt' = mtime
              /\ IF outcome.open /\ ~outcome.iterate
                 THEN bgPc' = "panicked" /\ chan' = chan
                 ELSE IF uiPc = "quit"
                 THEN bgPc' = "exited" /\ chan' = chan
                 ELSE bgPc' = bgPc /\ chan' = Send(chan, [seq |-> loads + 1, records |-> records])
    /\ UNCHANGED <<store, mtime, metaOk, uiPc, app, installedSeq, deletedKeys, call>>

\* one turn of the loop of start_background_loading that finds has_changed();
\* outcomes is the set of answers of the store the environment offers.  An Err
\* item reaches item.unwrap() and unwinds the thread; a send fails once the
\* receiver is dropped, and the loop breaks.
BgTickOf(maxLoads, maxQueue, outcomes) ==
    /\ ProcessAlive
    /\ bgPc = "running"
    /\ has_changed
    /\ (uiPc # "quit") => (loads < maxLoads /\ Len(chan) < maxQueue)
    /\ \E outcome \in outcomes :
          LET records == load_records(store, outcome.open)
          IN  /\ loads' = loads + 1
              /\ loadedAt' = mtime
              /\ IF outcome.open /\ ~outcome.iterate
                 THEN bgPc' = "panicked" /\ chan' = chan
                 ELSE IF uiPc = "quit"
                 THEN bgPc' = "exited" /\ chan' = chan
                 ELSE bgPc' = bgPc /\ chan' = Send(chan, [seq |-> loads + 1, records |-> records])
    /\ UNCHANGED <<store, mtime, metaOk, uiPc, app, installedSeq, deletedKeys, call>>

BgTick == BgTickOf(MaxLoads, MaxQueue, LoadOutcomes)

\* one turn of the loop that finds nothing changed: it only sleeps
BgIdle ==
    /\ ProcessAlive
    /\ bgPc = "running"
    /\ ~has_changed
    /\ UNCHANGED vars

\* another process writes the store
ExternalWrite ==
    /\ mtime <= MaxWrites
    /\ \E k \in Keys :
          /\ store' = IF k \in store THEN store \ {k} ELSE store \cup {k}
          /\ deletedKeys' = deletedKeys \ {k}
    /\ mtime' = mtime + 1
    /\ UNCHANGED <<metaOk, chan, loads, loadedAt, bgPc, uiPc, app, installedSeq, call>>

\* the store's directory becomes unreadable, or readable again
MetaToggle ==
    /\ metaOk' = ~metaOk
    /\ UNCHANGED <<store, mtime, chan, loads, loadedAt, bgPc, uiPc, app, installedSeq, deletedKeys, call>>

\* App::new: the blocking rx.recv() for the first snapshot
AppNew ==
    /\ uiPc = "new"
    /\ chan # <<>>
    /\ app' = [app EXCEPT !.records = Head(chan).records,
                          !.headers = collect_headers(Head(chan).records)]
    /\ installedSeq' = Head(chan).seq
    /\ chan' = Tail(chan)
    /\ uiPc' = "try_recv"
    /\ UNCHANGED <<store, mtime, metaOk, loads, loadedAt, bgPc, deletedKeys, call>>

\* the top of the loop: data_manager.try_recv()
TryRecv ==
    /\ uiPc = "try_recv"
    /\ LET r == try_recv(app, chan)
       IN  /\ app' = r.app
           /\ chan' = r.chan
           /\ installedSeq' = IF r.ok THEN Head(chan).seq ELSE installedSeq
    /\ uiPc' = "poll"
    /\ UNCHANGED <<store, mtime, metaOk, loads, loadedAt, bgPc, deletedKeys, call>>

\* terminal.draw, reached unless the handler panicked or asked to quit
draw(a1) == IF a1.panicked \/ a1.should_quit THEN a1 ELSE ui(a1)

\* one turn of the loop after try_recv: the handler, then the draw
turn(a, ev, outcome) == draw(handle_event(a, ev, outcome))

\* where the turn leaves the interactive thread
Finish(a2) ==
    /\ app' = a2
    /\ uiPc' = IF a2.panicked THEN "panicked"
               ELSE IF a2.should_quit THEN "quit" ELSE "try_recv"

\* the filter typed is at most MaxInput characters of FilterChars
InputRoom(ev) ==
    (ev.code = "Char" /\ app.focus = "Input" /\ app.show_raw_data = None)
        => (ev.ch \in FilterChars /\ Len(app.input) < MaxInput)

IsDelete(ev) ==
    /\ ev.code = "Char" /\ ev.ch = "d"
    /\ app.focus = "Table" /\ app.show_raw_data = None
    /\ IsSome(delete_target(app))

\* poll returns a key press of E, other than a delete that reaches the store
KeyPressOf(E) ==
    /\ uiPc = "poll"
    /\ \E ev \in E :
          /\ InputRoom(ev)
          /\ ~IsDelete(ev)
          /\ IF ExitsProcess(app, ev)
             THEN app' = app /\ uiPc' = "exited"
             ELSE LET a2 == turn(app, ev, "ok") IN Finish(a2)
    /\ UNCHANGED <<store, mtime, metaOk, chan, loads, loadedAt, bgPc, installedSeq, deletedKeys, call>>

\* poll returns 'd' on a selected row: DB::open, db.delete and their outcome
DeletePress ==
    /\ uiPc = "poll"
    /\ IsDelete(Char("d"))
    /\ \E outcome \in Outcomes :
          /\ LET a2 == turn(app, Char("d"), outcome) IN Finish(a2)
          /\ IF outcome = "ok"
             THEN /\ store' = store \ {Unwrap(delete_target(app))}
                  /\ mtime' = mtime + 1
                  /\ deletedKeys' = deletedKeys \cup {Unwrap(delete_target(app))}
             ELSE UNCHANGED <<store, mtime, deletedKeys>>
    /\ UNCHANGED <<metaOk, chan, loads, loadedAt, bgPc, installedSeq, call>>

\* poll returns a left button press of E
MousePressOf(E) ==
    /\ uiPc = "poll"
    /\ \E ev \in E : LET a2 == turn(app, ev, "ok") IN Finish(a2)
    /\ UNCHANGED <<store, mtime, metaOk, chan, loads, loadedAt, bgPc, installedSeq, deletedKeys, call>>

\* poll times out: the turn only draws
NoEvent ==
    /\ uiPc = "poll"
    /\ LET a2 == ui(app) IN Finish(a2)
    /\ UNCHANGED <<store, mtime, metaOk, chan, loads, loadedAt, bgPc, installedSeq, deletedKeys, call>>

---------------------------------------------------------------------------
(* Spec: the handoff under a writing environment, with the keys that reach *)
(* a delete.                                                               *)

SyncKeyPress == KeyPressOf(SyncKeys)

UiNext == AppNew \/ TryRecv \/ SyncKeyPress \/ DeletePress \/ NoEvent

Next == BgTick \/ BgIdle \/ ExternalWrite \/ MetaToggle \/ UiNext

Spec == Init /\ [][Next]_vars

---------------------------------------------------------------------------
(* LoadSpec: the handoff under the writing environment, with an interactive *)
(* loop that pulls and draws and is given no event.                         *)

LoadNext == BgTick \/ BgIdle \/ ExternalWrite \/ MetaToggle \/ AppNew \/ TryRecv \/ NoEvent

LoadSpec == Init /\ [][LoadNext]_vars

---------------------------------------------------------------------------
(* TypeListSpec: the type list under a first load and refreshes that find  *)
(* the store or fail to open it, with the keys that move over the list.     *)

TypeListBgTick ==
    /\ loads <= MaxRefreshes
    /\ BgTickOf(MaxLoads, MaxQueue, {LoadOk, [open |-> FALSE, iterate |-> TRUE]})

TypeListKeyPress == KeyPressOf(TypeListKeys)

TypeListMousePress == MousePressOf(TypeListMouse)

TypeListNext ==
    TypeListBgTick \/ AppNew \/ TryRecv \/ TypeListKeyPress \/ TypeListMousePress \/ NoEvent

TypeListSpec == Init /\ [][TypeListNext]_vars

---------------------------------------------------------------------------
(* NavSpec: every key and the presses on the filter, the header and the    *)
(* page line, over the snapshots a readable, otherwise quiet store yields. *)

\* the first load only: the store is readable and is not refreshed afterwards
NavBgTick == loads = 0 /\ BgTickOf(MaxLoads, MaxQueue, {LoadOk})

NavKeyPress == KeyPressOf(KeyEvents)

NavMousePress == MousePressOf(NavMouse)

NavNext ==
    NavBgTick \/ AppNew \/ TryRecv \/ NavKeyPress \/ DeletePress \/ NavMousePress \/ NoEvent

NavSpec == Init /\ [][NavNext]_vars

---------------------------------------------------------------------------
(* FairSpec: both threads keep being scheduled; the environment owes nothing *)

FairSpec == Spec /\ WF_vars(UiNext) /\ WF_vars(BgTick)

\* the background loop wakes every 500 ms: a load that is possible again and
\* again is eventually made
StrongFairSpec == Spec /\ WF_vars(UiNext) /\ SF_vars(BgTick)

---------------------------------------------------------------------------
(* ClickSpec: presses on the rows, at the gaps of ClickGaps, with the keys *)
(* that select a type and move the selection.                              *)

ClickKeyPress == KeyPressOf(ClickKeys)

ClickMousePress == MousePressOf(RowClicks)

ClickNext == NavBgTick \/ AppNew \/ TryRecv \/ ClickKeyPress \/ ClickMousePress \/ NoEvent

ClickSpec == Init /\ [][ClickNext]_vars

---------------------------------------------------------------------------
(* PureSpec: the pure functions called on their own, on inputs drawn from  *)
(* bounded sets; the threads stay where Init leaves them.                  *)

progVars == <<store, mtime, metaOk, chan, loads, loadedAt, bgPc, uiPc, app, installedSeq, deletedKeys>>

\* App::visible_page_indices on a session at current_page, for total_pages pages
CallPages ==
    /\ call = NoCall
    /\ \E total_pages \in 0..MaxPages, current_page \in 0..MaxPages :
          call' = [op |-> "visible_page_indices",
                   current_page |-> current_page,
                   total_pages |-> total_pages,
                   result |-> visible_page_indices(current_page, total_pages)]
    /\ UNCHANGED progVars

\* two loads of one store, each with its own outcome of DB::open_for_read_only
\* and its own HashSet iteration order
CallLoad ==
    /\ call = NoCall
    /\ \E db \in SUBSET Keys, open1, open2 \in BOOLEAN, order1, order2 \in IterationOrders :
          call' = [op |-> "load", db |-> db, open1 |-> open1, open2 |-> open2,
                   order1 |-> order1, order2 |-> order2,
                   first |-> load(db, open1, order1),
                   second |-> load(db, open2, order2)]
    /\ UNCHANGED progVars

\* a session holding the snapshot of db, with the filter typed
SessionOf(db, input) ==
    LET records == load_records(db, TRUE)
    IN  [NewApp EXCEPT !.records = records, !.headers = collect_headers(records),
                       !.input = input]

\* App::get_total_pages on a type of a loaded snapshot, for a table of height lines
CallTotalPages ==
    /\ call = NoCall
    /\ \E db \in SUBSET Keys, input \in {<<>>} \cup {<<c>> : c \in FilterChars}, height \in 1..MaxHeight :
          \E record_type \in DOMAIN load_records(db, TRUE) :
              call' = [op |-> "get_total_pages", db |-> db, input |-> input,
                       record_type |-> record_type, height |-> height,
                       count |-> Len(get_filtered_records(SessionOf(db, input), record_type).rows),
                       result |-> get_total_pages(SessionOf(db, input), record_type, height)]
    /\ UNCHANGED progVars

\* keys whose timestamps tie, are missing or do not parse, and keys of type
\* summary, whose timestamp is the second segment:
\* a:b:1  a:k  a:k:1  a:k:2  a:k:x  summary:2:9  summary:3:1
OrderKeys ==
    {<<"a", ":", "b", ":", "1">>, <<"a", ":", "k">>, KeyA1, KeyA2,
     <<"a", ":", "k", ":", "x">>,
     Summary \o <<":", "2", ":", "9">>, Summary \o <<":", "3", ":", "1">>}

\* PaginatedDataLoader::load_records on a store that opens
CallLoadRecords ==
    /\ call = NoCall
    /\ \E db \in SUBSET OrderKeys :
          call' = [op |-> "load_records", db |-> db, result |-> load_records(db, TRUE)]
    /\ UNCHANGED progVars

\* keys with an empty first segment next to keys of the store: the empty
\* key, :k and :
ParseKeys == Keys \cup {<<>>, <<":", "k">>, <<":">>, <<"a">>}

\* deserialize_record on one key and the bytes stored under it
CallParse ==
    /\ call = NoCall
    /\ \E key \in ParseKeys :
          call' = [op |-> "deserialize_record", key |-> key,
                   result |-> deserialize_record(key, StoreValue(key))]
    /\ UNCHANGED progVars

\* the caller drops the result
Return ==
    /\ call # NoCall
    /\ call' = NoCall
    /\ UNCHANGED progVars

PureNext == CallPages \/ CallLoad \/ CallTotalPages \/ CallLoadRecords \/ CallParse \/ Return

PureSpec == Init /\ [][PureNext]_vars

---------------------------------------------------------------------------
(* The handoff *)

\* C1: the handoff never holds more than one snapshot that was published and
\* not yet pulled (a publish replaces the pending snapshot).
C1_AtMostOnePending == Len(chan) <= 1

Pulls == uiPc = "try_recv" /\ uiPc' = "poll" /\ chan # <<>>

\* C2: a pull of the interactive loop never installs a snapshot when one loaded
\* later had already been published.
C2_PullInstallsFreshest ==
    [][Pulls => \A i \in 1..Len(chan) : chan[i].seq <= installedSeq']_vars

\* C3: the interactive side never waits on the background loop: creating the
\* session completes even if nothing is ever published.
C3_SessionStarts == <>(uiPc # "new")

\* C4: try_pull with a snapshot pending installs it, recomputes the headers and
\* leaves the pending slot empty; with nothing pending it changes nothing.
C4_TryPull ==
    [][(uiPc = "try_recv" /\ uiPc' = "poll") =>
          IF chan # <<>>
          THEN /\ app'.records = Head(chan).records
               /\ app'.headers = collect_headers(Head(chan).records)
               /\ chan' = <<>>
          ELSE app' = app /\ chan' = chan]_vars

KeysOf(records) ==
    UNION {{records[t][i].key : i \in 1..Len(records[t])} : t \in DOMAIN records}

\* C5: a key deleted by the interactive loop, and not re-inserted in the store
\* since, is absent from the current snapshot in every later state.
C5_DeletedStaysAbsent == deletedKeys \cap KeysOf(app.records) = {}

---------------------------------------------------------------------------
(* Delete *)

ErrorKinds == {"open_error", "delete_error"}

\* C6: a Delete that fails shows the error in the modal and leaves the snapshot,
\* the headers, the selection, the sort state, the filter and the page unchanged.
C6_DeleteFailureFrame ==
    (uiPc = "poll" /\ IsDelete(Char("d"))) =>
        \A outcome \in Outcomes \ {"ok"} :
            LET a2 == turn(app, Char("d"), outcome)
            IN  /\ IsSome(a2.show_raw_data)
                /\ Unwrap(a2.show_raw_data).kind \in ErrorKinds
                /\ a2.records = app.records
                /\ a2.headers = app.headers
                /\ a2.selected_table = app.selected_table
                /\ a2.selected_row = app.selected_row
                /\ a2.sort_column = app.sort_column
                /\ a2.sort_ascending = app.sort_ascending
                /\ a2.input = app.input
                /\ a2.current_page = app.current_page

\* a failed delete is on screen, with a filter typed and a sort column set
C6_Witness ==
    /\ IsSome(app.show_raw_data)
    /\ Unwrap(app.show_raw_data).kind \in ErrorKinds
    /\ app.input # <<>>
    /\ IsSome(app.sort_column)
    /\ IsSome(app.selected_table)

SelectedRowValid(a) ==
    (IsSome(a.selected_table) /\ IsSome(a.selected_row)
        /\ Unwrap(a.selected_table) \in DOMAIN a.records)
    => Unwrap(a.selected_row) < Len(get_filtered_records(a, Unwrap(a.selected_table)).rows)

\* C7: after every completed transition selected_row, when set together with
\* selected_type, is an index into the filtered and sorted rows of that type.
C7_SelectedRowInRange == uiPc = "try_recv" => SelectedRowValid(app)

PageValid(a) ==
    (IsSome(a.selected_table) /\ Unwrap(a.selected_table) \in DOMAIN a.records)
    => a.current_page < get_total_pages(a, Unwrap(a.selected_table), rows_per_page).pages

\* C8: after every completed transition 0 <= current_page < total_pages, the
\* pages being those of the filtered rows of the selected type.
C8_PageInRange == uiPc = "try_recv" => (app.current_page >= 0 /\ PageValid(app))

\* C9: a successful Delete of the selected row of a type holding exactly one
\* record leaves selected_type and selected_row both none.
C9_DeleteLastClearsSelection ==
    (/\ uiPc = "poll"
     /\ IsDelete(Char("d"))
     /\ Len(app.records[Unwrap(app.selected_table)]) = 1)
    => LET a2 == turn(app, Char("d"), "ok")
       IN  a2.selected_table = None /\ a2.selected_row = None

\* the last record of a type was just deleted
C9_Witness ==
    /\ IsSome(app.show_raw_data)
    /\ Unwrap(app.show_raw_data).kind = "deleted"
    /\ app.selected_table = None
    /\ \E t \in DOMAIN app.records : app.records[t] = <<>>

\* C10: for a type absent from the snapshot the view pipeline returns no rows
\* and one page, without failing.
C10_AbsentTypeIsEmpty ==
    (IsSome(app.selected_table) /\ Unwrap(app.selected_table) \notin DOMAIN app.records)
    => LET f == get_filtered_records(app, Unwrap(app.selected_table))
           t == get_total_pages(app, Unwrap(app.selected_table), rows_per_page)
       IN  ~f.panic /\ f.rows = <<>> /\ ~t.panic /\ t.pages = 1

---------------------------------------------------------------------------
(* The view pipeline *)

\* sub is a run of consecutive characters of s, each compared exactly
OccursIn(sub, s) ==
    \E i \in 1..(Len(s) + 1) : \E j \in (i - 1)..Len(s) :
        /\ j - i + 1 = Len(sub)
        /\ \A k \in 1..Len(sub) : s[i + k - 1] = sub[k]

PositionIn(recs, key) == CHOOSE i \in 1..Len(recs) : recs[i].key = key

ViewReady(a) == IsSome(a.selected_table) /\ Unwrap(a.selected_table) \in DOMAIN a.records

\* C11: the pipeline returns exactly the records of the selected type whose key
\* contains filter_text (case-sensitive; all of them when it is empty), in snapshot
\* order when no sort column is set; 1 matching key out of 3 gives 1 row and 1 page.
C11_FilterKeepsMatches ==
    ViewReady(app) =>
        LET recs == app.records[Unwrap(app.selected_table)]
            rows == get_filtered_records(app, Unwrap(app.selected_table)).rows
            pages == get_total_pages(app, Unwrap(app.selected_table), rows_per_page).pages
            matching == {i \in 1..Len(recs) : OccursIn(app.input, recs[i].key)}
        IN  /\ {rows[i] : i \in 1..Len(rows)} = {recs[i] : i \in matching}
            /\ Len(rows) = Cardinality(matching)
            /\ app.input = <<>> => Len(rows) = Len(recs)
            /\ app.sort_column = None =>
                  \A i, j \in 1..Len(rows) :
                      i < j => PositionIn(recs, rows[i].key) < PositionIn(recs, rows[j].key)
            /\ (Len(recs) = 3 /\ Cardinality(matching) = 1) => (Len(rows) = 1 /\ pages = 1)

\* type a holds 3 records and the filter typed is in the key of one of them
C11_Witness ==
    /\ uiPc = "try_recv"
    /\ ViewReady(app)
    /\ Len(app.records[Unwrap(app.selected_table)]) = 3
    /\ app.input = <<"1">>
    /\ app.sort_column = None
    /\ Len(get_filtered_records(app, Unwrap(app.selected_table)).rows) = 1

\* the cells of the sort column, in the order the pipeline returns the rows
SortedCells(a) ==
    LET t == Unwrap(a.selected_table)
        rows == get_filtered_records(a, t).rows
    IN  [i \in 1..Len(rows) |-> Cell(rows[i], a.headers[t], Unwrap(a.sort_column))]

\* C12: in a sort column where every filtered cell parses as a number the rows are
\* in non-decreasing numeric order when ascending and non-increasing when
\* descending; where no cell parses they are in lexicographic order of the cells.
C12_SortOrder ==
    (ViewReady(app) /\ IsSome(app.sort_column)) =>
        LET cells == SortedCells(app)
            n == Len(cells)
            Num(i) == Unwrap(ParseF64(cells[i]))
        IN  /\ (\A i \in 1..n : IsSome(ParseF64(cells[i]))) =>
                  \A i, j \in 1..n : i < j =>
                      IF app.sort_ascending THEN Num(i) <= Num(j) ELSE Num(i) >= Num(j)
            /\ (\A i \in 1..n : ParseF64(cells[i]) = None) =>
                  \A i, j \in 1..n : i < j =>
                      IF app.sort_ascending THEN ~StrLess(cells[j], cells[i])
                                            ELSE ~StrLess(cells[i], cells[j])

\* two rows whose cells are 5 and 10 are shown in descending numeric order
C12_Witness ==
    /\ uiPc = "try_recv"
    /\ ViewReady(app)
    /\ IsSome(app.sort_column)
    /\ ~app.sort_ascending
    /\ SortedCells(app) = << <<"1", "0">>, <<"5">> >>

---------------------------------------------------------------------------
(* Loading *)

\* the field names of the object payloads of a type's records
FieldNames(recs) ==
    UNION {IF recs[i].data.kind = "object" THEN DOMAIN recs[i].data.map ELSE {} :
           i \in 1..Len(recs)}

HeadersDerived(a) ==
    /\ DOMAIN a.headers = DOMAIN a.records
    /\ \A t \in DOMAIN a.records :
          LET h == a.headers[t]
              fields == FieldNames(a.records[t])
          IN  /\ Len(h) = 1 + Cardinality(fields)
              /\ h[1] = KeyHeader
              /\ {h[i] : i \in 2..Len(h)} = fields
              /\ \A i, j \in 2..Len(h) : i < j => StrLess(h[i], h[j])
              /\ (\A i \in 1..Len(a.records[t]) : a.records[t][i].data.kind # "object")
                    => h = <<KeyHeader>>

\* C13: after the first load and after every pull each type of the records map has
\* a header list: "key", then the sorted distinct field names of the type's object
\* payloads; a type with no object payload has the header list ["key"].
C13_HeadersDerived ==
    [][((uiPc = "new" /\ uiPc' = "try_recv") \/ Pulls) => HeadersDerived(app')]_vars

\* a pull installed a snapshot with type a (fields n, v, value) and type b (a number)
C13_Witness ==
    /\ uiPc = "poll"
    /\ installedSeq >= 2
    /\ DOMAIN app.headers = {<<"a">>, <<"b">>}
    /\ Len(app.headers[<<"a">>]) = 4
    /\ app.headers[<<"b">>] = <<KeyHeader>>

---------------------------------------------------------------------------
(* The page line *)

\* C14: for 20 pages and current page 10 the visible indices include 0, 19 and
\* 7..13; for 3 pages they are exactly 0, 1, 2 whatever the current page in 0..2.
C14_PageCompression ==
    call.op = "visible_page_indices" =>
        /\ (call.total_pages = 20 /\ call.current_page = 10)
              => ({0, 19} \cup 7..13) \subseteq call.result
        /\ (call.total_pages = 3 /\ call.current_page \in 0..2)
              => call.result = {0, 1, 2}

\* the page line was computed for 20 pages with page 10 current
C14_Witness ==
    /\ call.op = "visible_page_indices"
    /\ call.total_pages = 20
    /\ call.current_page = 10
    /\ call.result = {0, 7, 8, 9, 10, 11, 12, 13, 19}

\* C16: two loads of an unchanged store that both open it (or both fail to) give
\* the same set of types and, for each type, the same records in the same order
\* and the same header list, whatever order the hash sets iterate in.
C16_LoadIdempotent ==
    (call.op = "load" /\ call.open1 = call.open2) =>
        /\ DOMAIN call.first.records = DOMAIN call.second.records
        /\ \A t \in DOMAIN call.first.records :
              /\ call.first.records[t] = call.second.records[t]
              /\ call.first.headers[t] = call.second.headers[t]

\* two loads of the full store whose hash sets iterated in different orders
C16_Witness ==
    /\ call.op = "load"
    /\ call.db = Keys
    /\ call.open1 /\ call.open2
    /\ call.order1 # call.order2
    /\ call.first.headers[<<"a">>] = <<KeyHeader, <<"n">>, <<"v">>, ValueField>>
    /\ Len(call.second.records[<<"a">>]) = 3

\* C17: a load never fails and never stops the background loop: whatever the
\* store answers, the thread keeps running (or leaves because the consumer is
\* gone) and, with a consumer, publishes the store's records or, when the store
\* cannot be opened or iterated, the empty snapshot.
C17_LoadNeverFails ==
    [][(loads' # loads) =>
          /\ bgPc' # "panicked"
          /\ (uiPc # "quit") =>
                \E records \in {load_records(store, TRUE), <<>>} :
                    chan' = Append(chan, [seq |-> loads', records |-> records])]_vars

\* C18: while the store's modification marker cannot be read has_changed is
\* false, and no step loads the store or publishes a snapshot.
C18_UnreadableMarkerSkips ==
    [][~metaOk => (~has_changed /\ loads' = loads /\ Len(chan') <= Len(chan))]_vars

\* the marker became unreadable after a snapshot was loaded and pulled, with the
\* background loop still running
C18_Witness ==
    /\ ~metaOk
    /\ bgPc = "running"
    /\ loads >= 1 /\ loads < MaxLoads
    /\ chan = <<>>
    /\ uiPc = "poll"

\* C19: once the interactive loop has returned and dropped the receiver, the
\* background loop eventually exits, whatever the store does afterwards.
C19_LoopExits == (uiPc = "quit") ~> (bgPc # "running")

\* C22: a publish never waits for the interactive loop: a tick that finds a
\* change can load and publish whether or not earlier snapshots were pulled.
C22_PublishNeverWaits ==
    (/\ ProcessAlive /\ bgPc = "running" /\ has_changed
     /\ uiPc # "quit" /\ loads < MaxLoads /\ Len(chan) < MaxQueue)
        => ENABLED (BgTick /\ chan' # chan /\ bgPc' = "running")

\* a second snapshot was published while the first was still pending
C22_Witness ==
    /\ Len(chan) >= 2
    /\ bgPc = "running"
    /\ uiPc = "poll"

\* C23: a tick loads and publishes only if the store was modified after the
\* previous load: while the store is as it was at the latest load, no step loads
\* it again or publishes.
C23_LoadsOnlyAfterChange ==
    [][(loadedAt # 0 /\ mtime = loadedAt) =>
          (loads' = loads /\ Len(chan') <= Len(chan))]_vars

---------------------------------------------------------------------------
(* Pagination *)

\* C21: for n filtered records and a page of p >= 1 lines, get_total_pages is
\* 1 when n = 0 and otherwise the least k with k * p >= n; it is never below 1.
C21_TotalPages ==
    (call.op = "get_total_pages") =>
        /\ ~call.result.panic
        /\ call.result.pages >= 1
        /\ IF call.count = 0
           THEN call.result.pages = 1
           ELSE /\ call.result.pages * call.height >= call.count
                /\ (call.result.pages - 1) * call.height < call.count

\* three records on pages of two lines
C21_Witness ==
    /\ call.op = "get_total_pages"
    /\ call.count = 3
    /\ call.height = 2
    /\ call.result.pages = 2

---------------------------------------------------------------------------
(* Delete *)

\* C24: after a successful Delete that leaves the type non-empty, selected_row
\* is an index into the filtered and sorted rows as they are after the deletion,
\* and is cleared when no filtered row is left.
C24_DeleteReclampsFiltered ==
    (/\ uiPc = "poll"
     /\ IsDelete(Char("d"))
     /\ Len(app.records[Unwrap(app.selected_table)]) > 1)
    => LET a2 == turn(app, Char("d"), "ok")
           rows == get_filtered_records(a2, Unwrap(app.selected_table)).rows
       IN  IF rows = <<>>
           THEN a2.selected_row = None
           ELSE IsSome(a2.selected_row) /\ Unwrap(a2.selected_row) < Len(rows)

\* C25: a successful Delete with row r selected removes from the snapshot the
\* record shown at index r of the filtered and sorted rows of the selected type,
\* and nothing else: the type's other records and every other type keep their
\* records in their order.
C25_DeleteRemovesShownRecord ==
    (uiPc = "poll" /\ IsDelete(Char("d"))) =>
        LET table == Unwrap(app.selected_table)
            shown == get_filtered_records(app, table).rows[Unwrap(app.selected_row) + 1]
            Others(r) == r # shown
            a2 == turn(app, Char("d"), "ok")
        IN  /\ DOMAIN a2.records = DOMAIN app.records
            /\ \A t \in DOMAIN app.records \ {table} : a2.records[t] = app.records[t]
            /\ a2.records[table] = SelectSeq(app.records[table], Others)
            /\ Len(a2.records[table]) = Len(app.records[table]) - 1

\* the record deleted was shown first, under a descending sort, and is not the
\* first of its type in the snapshot
C25_Witness ==
    /\ IsSome(app.show_raw_data)
    /\ Unwrap(app.show_raw_data).kind = "deleted"
    /\ app.sort_column # None /\ ~app.sort_ascending
    /\ IsSome(app.selected_table)
    /\ Len(app.records[Unwrap(app.selected_table)]) = 2
    /\ Unwrap(app.show_raw_data).key \in {KeyA1, KeyA2}

---------------------------------------------------------------------------
(* Keys *)

\* C26: with no modal open, Esc with the focus on Table, Input or Pages leaves
\* the focus on TableSelect with selected_table and selected_row none; from
\* Pages it does not go back to Table.
C26_CancelClearsSelection ==
    (uiPc = "poll" /\ app.show_raw_data = None /\ app.focus \in {"Table", "Input", "Pages"}) =>
        LET a2 == turn(app, Key("Esc"), "ok")
        IN  /\ a2.focus = "TableSelect"
            /\ a2.selected_table = None
            /\ a2.selected_row = None

\* Esc was pressed on the page line: the focus is on the type list and the
\* page line's own flag is still set
C26_Witness ==
    /\ app.focus = "TableSelect"
    /\ app.page_focus
    /\ app.selected_table = None
    /\ app.selected_row = None

\* the type at position index (from 0) of the sorted type list
TypeAt(a, index) ==
    CHOOSE t \in DOMAIN a.records :
        Cardinality({u \in DOMAIN a.records : StrLess(u, t)}) = index

\* C27: Enter on the type list, with the highlighted index inside the sorted
\* type list, selects the type at that index, row 0, no sort column, ascending,
\* page 0 and moves the focus to Table; with no type at that index (an empty
\* snapshot included) it changes nothing.
C27_ConfirmSelectsType ==
    (uiPc = "poll" /\ app.show_raw_data = None /\ app.focus = "TableSelect") =>
        LET a2 == turn(app, Key("Enter"), "ok")
        IN  IF app.table_select_index < Cardinality(DOMAIN app.records)
            THEN a2 = [app EXCEPT !.selected_table = Some(TypeAt(app, app.table_select_index)),
                                  !.selected_row = Some(0),
                                  !.sort_column = None,
                                  !.sort_ascending = TRUE,
                                  !.current_page = 0,
                                  !.focus = "Table"]
            ELSE a2 = app

\* the second type of the list is to be confirmed, with the sort column,
\* direction and page left behind by the type cancelled before
C27_Witness ==
    /\ uiPc = "poll"
    /\ app.show_raw_data = None
    /\ app.focus = "TableSelect"
    /\ app.table_select_index = 1
    /\ Cardinality(DOMAIN app.records) = 2
    /\ app.sort_column # None /\ ~app.sort_ascending
    /\ app.current_page = 1

\* C28: with no modal open, Tab moves the focus Input -> TableSelect (no type
\* selected) or Table (a type selected) -> Pages -> Input: from Input it never
\* reaches TableSelect once a type is selected, and from TableSelect or Table
\* the next focus is Pages.
C28_TabCycles ==
    (uiPc = "poll" /\ app.show_raw_data = None) =>
        LET a2 == turn(app, Key("Tab"), "ok")
        IN  /\ (app.focus = "Input" /\ IsSome(app.selected_table)) => a2.focus = "Table"
            /\ (app.focus = "Input" /\ app.selected_table = None) => a2.focus = "TableSelect"
            /\ (app.focus \in {"TableSelect", "Table"}) => a2.focus = "Pages"
            /\ (app.focus = "Pages") => a2.focus = "Input"

\* the position (from 0) of type t in the sorted type list
TypePosition(a, t) == Cardinality({u \in DOMAIN a.records : StrLess(u, t)})

\* C29: BackTab on Table, with the selected type at position i > 0 of the
\* sorted type list, selects the type at position i-1 and row 0 and clears the
\* sort state while the focus stays on Table; with the first type selected, or
\* no type selected, it moves the focus to Input and leaves selected_table,
\* selected_row and the sort state as they were.
C29_BackTabStepsBack ==
    (uiPc = "poll" /\ app.show_raw_data = None /\ app.focus = "Table") =>
        LET a2 == turn(app, Key("BackTab"), "ok")
        IN  IF IsSome(app.selected_table) /\ Unwrap(app.selected_table) \in DOMAIN app.records
               /\ TypePosition(app, Unwrap(app.selected_table)) > 0
            THEN /\ a2.selected_table = Some(TypeAt(app, TypePosition(app, Unwrap(app.selected_table)) - 1))
                 /\ a2.selected_row = Some(0)
                 /\ a2.sort_column = None
                 /\ a2.sort_ascending
                 /\ a2.focus = "Table"
            ELSE (app.selected_table = None \/ Unwrap(app.selected_table) \in DOMAIN app.records) =>
                 /\ a2.focus = "Input"
                 /\ a2.selected_table = app.selected_table
                 /\ a2.selected_row = app.selected_row
                 /\ a2.sort_column = app.sort_column
                 /\ a2.sort_ascending = app.sort_ascending

\* the second type is selected on Table with a descending sort on a column
C29_Witness ==
    /\ uiPc = "poll" /\ app.show_raw_data = None /\ app.focus = "Table"
    /\ IsSome(app.selected_table) /\ Unwrap(app.selected_table) \in DOMAIN app.records
    /\ TypePosition(app, Unwrap(app.selected_table)) = 1
    /\ app.sort_column # None /\ ~app.sort_ascending

\* C30: a press on column c of the header line, with a type selected and no
\* modal open: when c is the active sort column sort_ascending is flipped and
\* sort_column stays c, otherwise sort_column becomes c with sort_ascending
\* true; either way selected_row is Some(0) and current_page 0, and the filter
\* text and the selected type are as before.
C30_SortToggle ==
    (uiPc = "poll" /\ app.show_raw_data = None /\ IsSome(app.selected_table)) =>
        \A c \in 0..1 :
            c < ColumnCount(app, Unwrap(app.selected_table)) =>
                LET a2 == turn(app, Mouse("header", c, 0), "ok")
                IN  /\ a2.sort_column = Some(c)
                    /\ a2.sort_ascending = (IF app.sort_column = Some(c)
                                            THEN ~app.sort_ascending ELSE TRUE)
                    /\ a2.selected_row = Some(0)
                    /\ a2.current_page = 0
                    /\ a2.input = app.input
                    /\ a2.selected_table = app.selected_table

\* column 1 is sorted descending, on page 1 with a row beyond the first
\* selected
C30_Witness ==
    /\ uiPc = "poll" /\ app.show_raw_data = None /\ IsSome(app.selected_table)
    /\ app.sort_column = Some(1) /\ ~app.sort_ascending
    /\ app.current_page = 1
    /\ app.selected_row # Some(0)
    /\ 1 < ColumnCount(app, Unwrap(app.selected_table))

----------------------------------------------------------------------------
(* Rows and pages *)

\* the number of filtered rows of the selected type
RowCount(a) == Len(get_filtered_records(a, Unwrap(a.selected_table)).rows)

\* row lies on page
OnPage(row, page) == page * rows_per_page <= row /\ row < page * rows_per_page + rows_per_page

\* C31: Up and Down on Table, with selected_row an index into the filtered rows
\* of the selected type, leave it such an index: Up at row 0 and Down at the
\* last row change nothing, any other move changes the row by one, and when the
\* row was on current_page before the move, the row after the move is on the
\* current_page after the move.
C31_MoveKeepsRowAndPage ==
    (/\ uiPc = "poll" /\ app.show_raw_data = None /\ app.focus = "Table"
     /\ ViewReady(app) /\ IsSome(app.selected_row)
     /\ Unwrap(app.selected_row) < RowCount(app)) =>
        LET row == Unwrap(app.selected_row)
            up == turn(app, Key("Up"), "ok")
            down == turn(app, Key("Down"), "ok")
        IN  /\ up.selected_row = Some(IF row = 0 THEN 0 ELSE row - 1)
            /\ down.selected_row = Some(IF row = RowCount(app) - 1 THEN row ELSE row + 1)
            /\ row = 0 => up = app
            /\ row = RowCount(app) - 1 => down = app
            /\ OnPage(row, app.current_page) =>
                   /\ OnPage(Unwrap(up.selected_row), up.current_page)
                   /\ OnPage(Unwrap(down.selected_row), down.current_page)

\* the last row of page 0 is selected and a further page follows: Down
\* crosses the page boundary
C31_Witness ==
    /\ uiPc = "poll" /\ app.show_raw_data = None /\ app.focus = "Table"
    /\ ViewReady(app)
    /\ app.current_page = 0
    /\ app.selected_row = Some(rows_per_page - 1)
    /\ RowCount(app) > rows_per_page

\* the page keys of the focus: Left and Right on the page line, PageUp and
\* PageDown on the table
PageKeys(focus) ==
    CASE focus = "Pages" -> {Key("Left"), Key("Right")}
      [] focus = "Table" -> {Key("PageUp"), Key("PageDown")}
      [] OTHER -> {}

\* C32: after a page key (Left or Right on Pages, PageUp or PageDown on Table)
\* current_page is within [0, total_pages), and when the key changed the page
\* selected_row is one of the rows of the new page.
C32_PageKeysSnapSelection ==
    (uiPc = "poll" /\ app.show_raw_data = None /\ ViewReady(app) /\ PageValid(app)) =>
        \A ev \in PageKeys(app.focus) :
            LET a2 == turn(app, ev, "ok")
            IN  /\ a2.current_page >= 0 /\ PageValid(a2)
                /\ a2.current_page # app.current_page =>
                       /\ IsSome(a2.selected_row)
                       /\ OnPage(Unwrap(a2.selected_row), a2.current_page)

\* C33: for total_pages >= 1 and current_page in [0, total_pages) the visible
\* page indices lie within [0, total_pages), contain 0, the last page and every
\* valid page within 3 of current_page, contain the pages 0..5 that exist when
\* current_page < 6, and contain the last 6 pages when current_page is within 5
\* of the last page.  (The indices are a BTreeSet read in order: ascending and
\* without duplicates.)
C33_PageCompressionWindows ==
    (/\ call.op = "visible_page_indices"
     /\ call.total_pages >= 1
     /\ call.current_page < call.total_pages) =>
        LET last == call.total_pages - 1
            pages == 0..last
        IN  /\ call.result \subseteq pages
            /\ {0, last} \subseteq call.result
            /\ {p \in pages : p >= call.current_page - 3 /\ p <= call.current_page + 3}
                   \subseteq call.result
            /\ call.current_page < 6 => {p \in pages : p <= 5} \subseteq call.result
            /\ call.current_page >= last - 5 => {p \in pages : p >= last - 5} \subseteq call.result

----------------------------------------------------------------------------
(* The type list *)

\* C34: whenever the snapshot has at least one type, table_select_index is
\* below the number of its types: after Up and Down on the type list and after
\* a pull that installs a snapshot with fewer types.
C34_TypeIndexInRange ==
    (uiPc \in {"poll", "try_recv"} /\ DOMAIN app.records # {}) =>
        app.table_select_index < Cardinality(DOMAIN app.records)

----------------------------------------------------------------------------
(* Load and parse *)

\* the timestamp a key carries: the integer in its third segment (its second
\* for type summary), 0 when the segment is missing or is not an integer
KeyTimestamp(key) ==
    LET segs == Split(key)
        pos == IF segs[1] = Summary THEN 2 ELSE 3
    IN  IF Len(segs) >= pos /\ AllDigits(segs[pos]) THEN DigitsValue(segs[pos]) ELSE 0

\* C35: in a snapshot produced by load_records each type holds exactly the
\* store's keys of that type, ordered by the timestamp derived from the key,
\* descending, and records with equal timestamps are in the store's iteration
\* order (ascending key order).
C35_NewestFirstStable ==
    call.op = "load_records" =>
        \A t \in DOMAIN call.result :
            LET recs == call.result[t]
            IN  /\ {recs[i].key : i \in 1..Len(recs)} = {k \in call.db : Split(k)[1] = t}
                /\ Len(recs) = Cardinality({k \in call.db : Split(k)[1] = t})
                /\ \A i, j \in 1..Len(recs) :
                       i < j =>
                           \/ KeyTimestamp(recs[i].key) > KeyTimestamp(recs[j].key)
                           \/ /\ KeyTimestamp(recs[i].key) = KeyTimestamp(recs[j].key)
                              /\ StrLess(recs[i].key, recs[j].key)

\* all seven keys were loaded: type a holds two records of timestamp 1 and two
\* of timestamp 0
C35_Witness ==
    /\ call.op = "load_records"
    /\ call.db = OrderKeys
    /\ Len(call.result[<<"a">>]) = 5
    /\ call.result[<<"a">>][2].key = <<"a", ":", "b", ":", "1">>
    /\ call.result[<<"a">>][3].key = KeyA1
    /\ call.result[<<"a">>][4].key = <<"a", ":", "k">>
    /\ call.result[Summary][1].key = Summary \o <<":", "3", ":", "1">>

Unknown == <<"u", "n", "k", "n", "o", "w", "n">>

\* C36: deserialize_record gives record_type the first segment of the key
\* before ':', and "unknown" when that segment is empty; no record has an empty
\* record_type.
C36_TypeNeverEmpty ==
    call.op = "deserialize_record" =>
        /\ call.result.record_type =
               (IF Split(call.key)[1] = <<>> THEN Unknown ELSE Split(call.key)[1])
        /\ call.result.record_type # <<>>

\* C37: in every state of the session, also after a local delete and before
\* the next pull, the header list of each type is "key" followed by the sorted
\* field names of the object payloads of the records the type holds in
\* app.records.
C37_HeadersFollowRecords ==
    uiPc \in {"poll", "try_recv"} => HeadersDerived(app)

\* C38: whenever selected_table is set it names a type of app.records, or the
\* filtered rows of the absent type are computed without failing; the session
\* never ends in a panic of the view pipeline.
C38_SelectedTypePresent ==
    uiPc \in {"poll", "try_recv", "panicked"} =>
        /\ ~app.panicked
        /\ IsSome(app.selected_table) =>
               \/ Unwrap(app.selected_table) \in DOMAIN app.records
               \/ ~get_filtered_records(app, Unwrap(app.selected_table)).panic

\* C39: the type Enter commits from the type list is the type drawn
\* highlighted in the list as displayed, also when a filter is typed and the
\* list shows only the types whose name contains it.
C39_ConfirmCommitsHighlighted ==
    (uiPc = "poll" /\ app.show_raw_data = None /\ app.focus = "TableSelect") =>
        LET a2 == turn(app, Key("Enter"), "ok")
        IN  IsSome(a2.selected_table) => a2.selected_table = highlighted_type(app)

\* C40: in every state of the session page_focus is true exactly when the
\* focus is on Pages.
C40_PageFocusFollowsFocus ==
    uiPc \in {"poll", "try_recv"} => (app.page_focus <=> app.focus = "Pages")

---------------------------------------------------------------------------
(* Pointer and modal *)

\* C15: a press on the row recorded by the previous press on a row of the same
\* type, less than 500 ms after it, opens the raw-inspect modal on that row's
\* record; a press 500 ms or more after it, or on another row or type, opens no
\* modal and selects the row pressed.
C15_DoubleClick ==
    (uiPc = "poll" /\ app.show_raw_data = None /\ ViewReady(app)) =>
        \A n \in 0..(rows_per_page - 1), gap \in ClickGaps :
            LET table == Unwrap(app.selected_table)
                row == app.current_page * rows_per_page + n
                rows == get_filtered_records(app, table).rows
                a2 == turn(app, Mouse("row", n, gap), "ok")
            IN  row < Len(rows) =>
                    IF gap < 500 /\ app.last_click = Some([table |-> table, row |-> row])
                    THEN a2.show_raw_data = Modal("raw", rows[row + 1].key)
                    ELSE /\ a2.show_raw_data = None
                         /\ a2.selected_row = Some(row)
                         /\ a2.selected_table = app.selected_table

\* the second of two presses on the second row of a type opened the modal on it
C15_Witness ==
    /\ IsSome(app.show_raw_data)
    /\ Unwrap(app.show_raw_data).kind = "raw"
    /\ app.selected_row = Some(1)
    /\ app.last_click = None

=============================================================================
